---- MODULE Spec2Model ----
(***************************************************************************)
(* A model of rasqal's execution.rs: the runtime collection and its        *)
(* capability matching, entry-point resolution, and the run_file /         *)
(* parse_file / build_graph_from_module / run_graph pipeline with its      *)
(* catch_panics boundaries.                                                *)
(*                                                                         *)
(* Option<T> is modelled as a sequence: None is <<>>, Some(x) is <<x>>.    *)
(* Result<T, String> and an unwinding panic are records [kind, val].       *)
(***************************************************************************)
EXTENDS Naturals, Sequences, FiniteSets, TLC

\* ------------------------------------------------------------------ bounds
\* Longest function list handed to choose_entry_point / held by a module.
MaxFuncs == 2
\* Longest runtime collection.
MaxRuntimes == 3
\* Largest natural step count of a graph.
MaxSteps == 2

\* ------------------------------------------------------ Option and Result
None == <<>>
Some(x) == <<x>>
Ok(v) == [kind |-> "Ok", val |-> v]
Err(msg) == [kind |-> "Err", val |-> msg]
\* A panic that is unwinding (caught by no catch_panics frame so far).
Panicked(payload) == [kind |-> "Panic", val |-> payload]
\* No call has returned yet.
NoResult == [kind |-> "Pending", val |-> <<>>]

\* Sequences over S of length at most n.
SeqUpTo(S, n) == UNION {[1..k -> S] : k \in 0..n}

\* ------------------------------------------------------- strings (UTF-8)
\* OsStr / CStr values that are not valid UTF-8.
InvalidUtf8 == {"l<FF>", "f<FF>"}
\* OsStr::to_str / CStr::to_str: the string when it is valid UTF-8.
to_str(s) == IF s \in InvalidUtf8 THEN None ELSE Some(s)

\* ---------------------------------------------------- runtime collection
\* The integration runtimes that exist, and the features each declares.
Runtimes == {"sim", "qpu_a", "qpu_b"}
Features == {"gates", "cond"}
Declared(r) ==
  CASE r = "sim" -> {}
    [] r = "qpu_a" -> {"gates"}
    [] r = "qpu_b" -> {"gates", "cond"}

\* IntegrationRuntime::has_features: the declared features cover the request.
has_features(r, features) == features \subseteq Declared(r)

\* A mutant of the scan: the validity check is dropped.
RECURSIVE find_capable_QPU_novalid(_, _, _, _)
find_capable_QPU_novalid(runtimes, validity, features, i) ==
  IF i > Len(runtimes) THEN None
  ELSE IF has_features(runtimes[i], features) THEN Some(runtimes[i])
  ELSE find_capable_QPU_novalid(runtimes, validity, features, i + 1)

\* The loop of find_capable_QPU from entry i on: the first engine that is
\* valid now and has the features, else None.
RECURSIVE scan_QPUs(_, _, _, _)
scan_QPUs(runtimes, validity, features, i) ==
  IF i > Len(runtimes) THEN None
  ELSE IF validity[runtimes[i]] /\ has_features(runtimes[i], features)
       THEN Some(runtimes[i])
       ELSE scan_QPUs(runtimes, validity, features, i + 1)

\* A mutant: the two checks are made in the other order
\* (engine.has_features(features) && engine.is_valid()).
RECURSIVE probes_QPUs_swapped(_, _, _, _)
probes_QPUs_swapped(runtimes, validity, features, i) ==
  IF i > Len(runtimes) THEN <<>>
  ELSE IF ~has_features(runtimes[i], features)
    THEN <<<<"has_features", i>>>>
           \o probes_QPUs_swapped(runtimes, validity, features, i + 1)
  ELSE IF validity[runtimes[i]]
    THEN <<<<"has_features", i>>, <<"is_valid", i>>>>
  ELSE <<<<"has_features", i>>, <<"is_valid", i>>>>
         \o probes_QPUs_swapped(runtimes, validity, features, i + 1)

\* The checks the loop of find_capable_QPU makes from entry i on, in the
\* order it makes them: is_valid() on the entry, has_features only when
\* is_valid() was true (&& does not evaluate its right side otherwise), and
\* no further entry once both were true (return).
RECURSIVE probes_QPUs(_, _, _, _)
probes_QPUs(runtimes, validity, features, i) ==
  IF i > Len(runtimes) THEN <<>>
  ELSE IF ~validity[runtimes[i]]
    THEN <<<<"is_valid", i>>>>
           \o probes_QPUs(runtimes, validity, features, i + 1)
  ELSE IF has_features(runtimes[i], features)
    THEN <<<<"is_valid", i>>, <<"has_features", i>>>>
  ELSE <<<<"is_valid", i>>, <<"has_features", i>>>>
         \o probes_QPUs(runtimes, validity, features, i + 1)

\* A mutant: the last qualifying engine wins (the loop keeps its latest match).
find_capable_QPU_last(runtimes, validity, features) ==
  LET q == {i \in 1..Len(runtimes) :
              validity[runtimes[i]] /\ has_features(runtimes[i], features)}
  IN IF q = {} THEN None
     ELSE Some(runtimes[CHOOSE i \in q : \A j \in q : j <= i])

\* RuntimeCollection::find_capable_QPU.
find_capable_QPU(runtimes, validity, features) ==
  scan_QPUs(runtimes, validity, features, 1)

\* -------------------------------------------------- entry-point resolution
\* A FunctionValue: its name (a CStr) and the names of its function-level
\* string attributes.
FunctionValues ==
  {[name |-> "main", attrs |-> {}],
   [name |-> "main", attrs |-> {"entry_point"}],
   [name |-> "main", attrs |-> {"entry_point", "EntryPoint"}],
   [name |-> "aux", attrs |-> {}],
   [name |-> "aux", attrs |-> {"EntryPoint"}],
   [name |-> "aux", attrs |-> {"entrypoint"}],
   [name |-> "f<FF>", attrs |-> {"entry_point"}]}
\* The names a caller may request.
RequestedNames == {None, Some("main"), Some("aux")}

\* A mutant: the attribute name is matched loosely, so that other spellings
\* of the marker count too.
is_entry_point_loose(function) ==
  \E a \in function.attrs : a \in {"entry_point", "EntryPoint", "entrypoint"}

\* is_entry_point: either marker attribute is present.
is_entry_point(function) ==
  "entry_point" \in function.attrs \/ "EntryPoint" \in function.attrs

ErrNoMethod == <<"Can't find a method with this nane.">>
ErrNoEntryPoints == <<"Can't find any entry-points.">>
ErrAmbiguous ==
  <<"No specified method and more than one entry-point. Can't auto-detect.">>
\* The payloads of Result::unwrap and Option::unwrap failing.
UnwrapPanic == <<"called Result::unwrap() on an Err value">>
UnwrapNonePanic == <<"called Option::unwrap() on a None value">>

\* filter(|f| func_name == f.get_name().to_str().unwrap()).next(), from
\* function i on: the functions are examined in order up to the first match,
\* and the unwrap panics on a name that is not UTF-8. A function is
\* identified by its position in the iteration.
RECURSIVE first_named(_, _, _)
first_named(functions, func_name, i) ==
  IF i > Len(functions) THEN Err(ErrNoMethod)
  ELSE IF to_str(functions[i].name) = None THEN Panicked(UnwrapPanic)
  ELSE IF func_name = to_str(functions[i].name)[1] THEN Ok(i)
  ELSE first_named(functions, func_name, i + 1)

\* functions.filter(|f| is_entry_point(*f)).collect(): the marked functions,
\* by position, in declaration order.
RECURSIVE entry_points(_, _)
entry_points(functions, i) ==
  IF i > Len(functions) THEN <<>>
  ELSE IF is_entry_point(functions[i])
       THEN <<i>> \o entry_points(functions, i + 1)
       ELSE entry_points(functions, i + 1)

\* A mutant: with several marked functions the first is taken.
choose_entry_point_first(functions, name) ==
  IF name /= None THEN first_named(functions, name[1], 1)
  ELSE LET eps == entry_points(functions, 1)
       IN IF eps = <<>> THEN Err(ErrNoEntryPoints) ELSE Ok(Head(eps))

\* A mutant: an empty candidate list is reported as ambiguous.
choose_entry_point_empty(functions, name) ==
  IF name /= None THEN first_named(functions, name[1], 1)
  ELSE LET eps == entry_points(functions, 1)
       IN IF Len(eps) /= 1 THEN Err(ErrAmbiguous) ELSE Ok(Head(eps))

\* A mutant: the last marked function is returned.
choose_entry_point_last(functions, name) ==
  IF name /= None THEN first_named(functions, name[1], 1)
  ELSE LET eps == entry_points(functions, 1)
       IN IF eps = <<>> THEN Err(ErrNoEntryPoints)
          ELSE IF Len(eps) > 1 THEN Err(ErrAmbiguous)
          ELSE Ok(Len(functions))

\* choose_entry_point.
choose_entry_point(functions, name) ==
  IF name /= None THEN first_named(functions, name[1], 1)
  ELSE LET eps == entry_points(functions, 1)
       IN IF eps = <<>> THEN Err(ErrNoEntryPoints)
          ELSE IF Len(eps) > 1 THEN Err(ErrAmbiguous)
          ELSE Ok(Head(eps))

\* ------------------------------------------------------------- IR loader
\* A path: its file stem and Path::extension (an Option<OsStr>).
Extensions ==
  {None, Some("ll"), Some("bc"), Some("qir"), Some("LL"), Some("Bc"),
   Some("l<FF>")}
Paths == {[stem |-> "bell", ext |-> e] : e \in Extensions}

\* Path::to_str: the path as a string when all of it is valid UTF-8.
path_to_str(p) ==
  IF p.ext /= None /\ to_str(p.ext[1]) = None THEN None
  ELSE Some(<<p.stem, p.ext>>)

\* The module's functions carry pairwise distinct names.
DistinctNames(fs) ==
  \A i, j \in 1..Len(fs) : fs[i].name = fs[j].name => i = j
\* A Module: its functions in declaration order, and the verifier's message
\* when structural verification rejects it.
Modules ==
  {[funcs |-> fs, verify |-> v] :
     fs \in {x \in SeqUpTo(FunctionValues, MaxFuncs) : DistinctNames(x)},
     v \in {None, Some("bad IR")}}
\* What decoding the file's content gives: a module, or the decoder's error.
Decodings == {Err(<<"malformed content">>)} \cup {Ok(m) : m \in Modules}

\* let extension = path.extension().and_then(OsStr::to_str).
extension_of(p) == IF p.ext = None THEN None ELSE to_str(p.ext[1])

\* The decoder calls file_to_module makes for this path.
loader_ops(p) ==
  IF extension_of(p) = Some("ll")
    THEN <<"MemoryBuffer::create_from_file", "create_module_from_ir">>
  ELSE IF extension_of(p) = Some("bc") THEN <<"parse_bitcode_from_path">>
  ELSE <<>>

\* A mutant: the extension is compared without regard to case.
file_to_module_nocase(p, decoded) ==
  IF extension_of(p) \in {Some("ll"), Some("LL"), Some("bc"), Some("Bc")}
    THEN decoded
  ELSE Err(<<"Unsupported file extension ", extension_of(p)>>)

\* file_to_module, given what decoding the file would produce.
file_to_module(p, decoded) ==
  IF extension_of(p) = Some("ll") THEN decoded
  ELSE IF extension_of(p) = Some("bc") THEN decoded
  ELSE Err(<<"Unsupported file extension ", extension_of(p)>>)

\* ----------------------------------------------------- graphs and config
\* An ExecutableAnalysisGraph: the steps its execution takes and the
\* features its quantum operations need of a backend.
Graphs == [steps : 1..MaxSteps, features : {{}, {"gates"}}]
\* A RasqalConfig: the step-count limit, when one is configured.
Configs == {[step_limit |-> l] : l \in {None} \cup {Some(k) : k \in 1..MaxSteps}}
\* The collections a caller hands to run_file / run_graph.
CallerCollections == {<<>>, <<"qpu_a">>}

\* catch_panics: a panic unwinding out of the closure becomes an Err that
\* keeps its message; any other result passes through.
catch_panics(r) == IF r.kind = "Panic" THEN Err(r.val) ELSE r

\* ------------------------------------------------------------------ state
VARIABLES
  QPU_runtimes,  \* RuntimeCollection.QPU_runtimes
  constructed,   \* history: the entries the collection's constructor was given
  added,         \* history: the runtimes passed to add since, in call order
  valid,         \* what is_valid() answers now, per runtime
  last,          \* the latest operation on the collection and its result
  probes,        \* history: the checks the latest find_capable_QPU call made
  earlier,       \* history: what the find_capable_QPU call before it returned
  scans,         \* per execution: its find_capable_QPU call in progress
  prior,         \* history: the run_graph call made just before this call
  entry,         \* the public function the caller invoked
  pc,            \* the operation the call performs next
  path,          \* Option: the path argument
  entry_point,   \* Option<&str>: the requested entry-point name
  logInfo,       \* whether the logger is enabled at Level::Info
  module,        \* Option: the module being analysed
  functions,     \* the functions handed to choose_entry_point
  entry_fn,      \* Option: the function choose_entry_point returned
  graph,         \* Option: the graph built or passed in
  config,        \* Option: the configuration argument
  session,       \* Option: the QuantumRuntime of this run_graph call
  guards,        \* the catch_panics frames on the stack
  done,          \* the operations performed so far in this call
  result         \* what the call returned (or the panic that left it)

collection_vars ==
  <<QPU_runtimes, constructed, added, valid, last, probes, earlier, scans,
    prior>>
run_vars ==
  <<entry, pc, path, entry_point, logInfo, module, functions, entry_fn,
    graph, config, session, guards, done, result>>
vars == <<collection_vars, run_vars>>

NoOp == [op |-> "default", features |-> {}, found |-> None]

\* The executions that may share one runtime collection.
Executions == {"e1", "e2"}
\* An execution that is not inside find_capable_QPU.
NoScan == [pc |-> "idle", features |-> {}, i |-> 0, found |-> None]

Init ==
  /\ QPU_runtimes = <<>>
  /\ constructed = <<>>
  /\ added = <<>>
  /\ valid = [r \in Runtimes |-> TRUE]
  /\ last = NoOp
  /\ probes = <<>>
  /\ earlier = None
  /\ scans = [e \in Executions |-> NoScan]
  /\ prior = None
  /\ entry = "none"
  /\ pc = "idle"
  /\ path = None
  /\ entry_point = None
  /\ logInfo = FALSE
  /\ module = None
  /\ functions = <<>>
  /\ entry_fn = None
  /\ graph = None
  /\ config = None
  /\ session = None
  /\ guards = 0
  /\ done = <<>>
  /\ result = NoResult

\* --------------------------------------------- runtime collection actions
Op(name, features, found) ==
  [op |-> name, features |-> features, found |-> found]

\* The result of the latest find_capable_QPU call made before the operation
\* that is starting now.
Earlier == IF last.op = "find_capable_QPU" THEN last.found ELSE earlier

\* RuntimeCollection::new(engines).
New(engines) ==
  /\ QPU_runtimes' = engines
  /\ constructed' = engines
  /\ added' = <<>>
  /\ last' = Op("new", {}, None)
  /\ probes' = <<>>
  /\ earlier' = None
  /\ UNCHANGED <<valid, scans, prior,
                 run_vars>>

\* RuntimeCollection::from(python_engine).
From(python_engine) ==
  /\ QPU_runtimes' = <<python_engine>>
  /\ constructed' = <<python_engine>>
  /\ added' = <<>>
  /\ last' = Op("from", {}, None)
  /\ probes' = <<>>
  /\ earlier' = None
  /\ UNCHANGED <<valid, scans, prior,
                 run_vars>>

\* RuntimeCollection::default().
Default ==
  /\ QPU_runtimes' = <<>>
  /\ constructed' = <<>>
  /\ added' = <<>>
  /\ last' = Op("default", {}, None)
  /\ probes' = <<>>
  /\ earlier' = None
  /\ UNCHANGED <<valid, scans, prior,
                 run_vars>>

\* A mutant: add puts the runtime in front (insert(0, ..) for push).
Add_front(python_engine) ==
  /\ Len(QPU_runtimes) < MaxRuntimes
  /\ QPU_runtimes' = <<python_engine>> \o QPU_runtimes
  /\ added' = Append(added, python_engine)
  /\ last' = Op("add", {}, None)
  /\ probes' = <<>>
  /\ earlier' = Earlier
  /\ UNCHANGED <<constructed, valid, scans, prior,
                 run_vars>>

\* RuntimeCollection::add(python_engine).
Add(python_engine) ==
  /\ Len(QPU_runtimes) < MaxRuntimes
  /\ QPU_runtimes' = Append(QPU_runtimes, python_engine)
  /\ added' = Append(added, python_engine)
  /\ last' = Op("add", {}, None)
  /\ probes' = <<>>
  /\ earlier' = Earlier
  /\ UNCHANGED <<constructed, valid, scans, prior,
                 run_vars>>

\* A mutant: the scan drops the entries it finds invalid (retain for iter).
FindCapableQPU_prune(features) ==
  /\ last' = Op("find_capable_QPU", features,
                find_capable_QPU(QPU_runtimes, valid, features))
  /\ probes' = probes_QPUs(QPU_runtimes, valid, features, 1)
  /\ earlier' = Earlier
  /\ QPU_runtimes' = SelectSeq(QPU_runtimes, LAMBDA r : valid[r])
  /\ UNCHANGED <<constructed, added, valid, scans, prior,
                 run_vars>>

\* A call of find_capable_QPU(features) on the collection.
FindCapableQPU(features) ==
  /\ last' = Op("find_capable_QPU", features,
                find_capable_QPU(QPU_runtimes, valid, features))
  /\ probes' = probes_QPUs(QPU_runtimes, valid, features, 1)
  /\ earlier' = Earlier
  /\ UNCHANGED <<QPU_runtimes, constructed, added, valid, scans, prior,
                 run_vars>>

\* The environment: a runtime's validity changes.
SetValid(r) ==
  /\ valid' = [valid EXCEPT ![r] = ~valid[r]]
  /\ last' = Op("set_valid", {}, None)
  /\ probes' = <<>>
  /\ earlier' = Earlier
  /\ UNCHANGED <<QPU_runtimes, constructed, added, scans, prior,
                 run_vars>>

NextRuntimes ==
  \/ \E engines \in SeqUpTo(Runtimes, MaxRuntimes) : New(engines)
  \/ \E r \in Runtimes : From(r)
  \/ Default
  \/ \E r \in Runtimes : Add(r)
  \/ \E f \in SUBSET Features : FindCapableQPU(f)
  \/ \E r \in Runtimes : SetValid(r)

SpecRuntimes == Init /\ [][NextRuntimes]_vars

\* ------------------------------------- find_capable_QPU, entry by entry
\* The loop of find_capable_QPU as each of several executions sharing the
\* collection runs it: for the entry at hand, with_mutable!(engine.is_valid())
\* takes mutable access to the entry for the duration of is_valid, then
\* engine.has_features(features) reads it, then the loop returns the entry or
\* moves to the next one.

\* The scan of an execution after entry i failed a check: the loop takes the
\* next entry and enters with_mutable! on it, or is over and returns None.
NextEntry(sc) ==
  IF sc.i + 1 > Len(QPU_runtimes)
    THEN [sc EXCEPT !.pc = "returned", !.i = sc.i + 1, !.found = None]
    ELSE [sc EXCEPT !.pc = "with_mutable", !.i = sc.i + 1]

\* Execution e holds mutable access to runtime r (it is inside with_mutable!
\* on an entry that points to r).
HoldsMutable(e, r) ==
  /\ scans[e].pc = "with_mutable"
  /\ QPU_runtimes[scans[e].i] = r

\* No find_capable_QPU call is in progress.
Quiet == \A e \in Executions : scans[e].pc = "idle"

\* Execution e calls find_capable_QPU(features) on the shared collection.
StartScan(e, features) ==
  /\ scans[e].pc = "idle"
  /\ scans' = [scans EXCEPT
                 ![e] = NextEntry([NoScan EXCEPT !.features = features])]
  /\ UNCHANGED <<QPU_runtimes, constructed, added, valid, last, probes,
                 earlier, prior, run_vars>>

\* is_valid() returns to execution e and its mutable access ends. While
\* another execution holds mutable access to the same runtime the two
\* accesses alias, which is undefined behaviour: the answer may be either.
IsValid(e) ==
  /\ scans[e].pc = "with_mutable"
  /\ LET r == QPU_runtimes[scans[e].i]
         aliased == \E o \in Executions \ {e} : HoldsMutable(o, r)
     IN \E answer \in (IF aliased THEN BOOLEAN ELSE {valid[r]}) :
          scans' = [scans EXCEPT
                      ![e] = IF answer
                               THEN [scans[e] EXCEPT !.pc = "has_features"]
                               ELSE NextEntry(scans[e])]
  /\ UNCHANGED <<QPU_runtimes, constructed, added, valid, last, probes,
                 earlier, prior, run_vars>>

\* engine.has_features(features) answers execution e: the entry is returned
\* or the loop goes on.
HasFeatures(e) ==
  /\ scans[e].pc = "has_features"
  /\ LET r == QPU_runtimes[scans[e].i]
     IN scans' = [scans EXCEPT
                    ![e] = IF has_features(r, scans[e].features)
                             THEN [scans[e] EXCEPT !.pc = "returned",
                                                   !.found = Some(r)]
                             ELSE NextEntry(scans[e])]
  /\ UNCHANGED <<QPU_runtimes, constructed, added, valid, last, probes,
                 earlier, prior, run_vars>>

\* Execution e has taken the result of its call.
EndScan(e) ==
  /\ scans[e].pc = "returned"
  /\ scans' = [scans EXCEPT ![e] = NoScan]
  /\ UNCHANGED <<QPU_runtimes, constructed, added, valid, last, probes,
                 earlier, prior, run_vars>>

\* The collection is built and validity changes only between scans; the
\* executions scan it concurrently.
NextScans ==
  \/ Quiet /\ \E engines \in SeqUpTo(Runtimes, MaxRuntimes) : New(engines)
  \/ Quiet /\ \E r \in Runtimes : SetValid(r)
  \/ \E e \in Executions, f \in SUBSET Features : StartScan(e, f)
  \/ \E e \in Executions : IsValid(e)
  \/ \E e \in Executions : HasFeatures(e)
  \/ \E e \in Executions : EndScan(e)

SpecScans == Init /\ [][NextScans]_vars

\* ------------------------------------------------------ pipeline actions
\* The Result leaving a point of the call with g catch_panics frames around
\* it: the innermost frame turns a panic into an Err, which every frame and
\* every ? above it passes on.
Settle(r, g) == IF g > 0 THEN catch_panics(r) ELSE r

\* A call starts: the arguments are bound and nothing has been performed.
Begin(e, p, n, log, m, g, c) ==
  /\ pc = "idle"
  /\ entry' = e
  /\ pc' = e
  /\ path' = p
  /\ entry_point' = n
  /\ logInfo' = log
  /\ module' = m
  /\ functions' = <<>>
  /\ entry_fn' = None
  /\ graph' = g
  /\ config' = c
  /\ session' = None
  /\ guards' = 0
  /\ done' = <<>>
  /\ result' = NoResult
  /\ UNCHANGED <<valid, last, probes, earlier, scans>>

\* The call returns r to the caller.
Return(r, ops) ==
  /\ pc' = "returned"
  /\ result' = r
  /\ guards' = 0
  /\ done' = done \o ops

\* The caller invokes run_file(path, args, runtimes, entry_point, config).
RunFile ==
  /\ pc = "idle"
  /\ \E p \in Paths, n \in RequestedNames, rs \in CallerCollections,
        c \in Configs, log \in BOOLEAN :
       /\ Begin("run_file", Some(p), n, log, None, None, Some(c))
       /\ QPU_runtimes' = rs
       /\ constructed' = rs
       /\ added' = <<>>
  /\ prior' = None

\* The caller invokes parse_file(path, entry_point).
ParseFile ==
  /\ pc = "idle"
  /\ \E p \in Paths, n \in RequestedNames, log \in BOOLEAN :
       Begin("parse_file", Some(p), n, log, None, None, None)
  /\ prior' = None
  /\ UNCHANGED <<QPU_runtimes, constructed, added>>

\* The caller invokes file_to_module(path, context).
CallFileToModule ==
  /\ pc = "idle"
  /\ \E p \in Paths :
       Begin("file_to_module", Some(p), None, FALSE, None, None, None)
  /\ prior' = None
  /\ UNCHANGED <<QPU_runtimes, constructed, added>>

\* The caller invokes build_graph_from_module(module, entry_point).
BuildGraphFromModule ==
  /\ pc = "idle"
  /\ \E m \in Modules, n \in RequestedNames, log \in BOOLEAN :
       Begin("build_graph_from_module", None, n, log, Some(m), None, None)
  /\ prior' = None
  /\ UNCHANGED <<QPU_runtimes, constructed, added>>

\* The caller invokes run_graph(graph, arguments, runtimes, config).
RunGraph ==
  /\ pc = "idle"
  /\ \E g \in Graphs, rs \in CallerCollections, c \in Configs :
       /\ Begin("run_graph", None, None, FALSE, None, Some(g), Some(c))
       /\ QPU_runtimes' = rs
       /\ constructed' = rs
       /\ added' = <<>>
  /\ UNCHANGED prior

\* run_file: catch_panics runs its closure, which calls parse_file.
RunFileEnter ==
  /\ pc = "run_file"
  /\ pc' = "parse_file"
  /\ guards' = guards + 1
  /\ UNCHANGED <<collection_vars, entry, path, entry_point, logInfo, module,
                 functions, entry_fn, graph, config, session, done, result>>

\* parse_file up to the load: log!(Info, "Parsing from {}.",
\* path.to_str().unwrap()), whose arguments are evaluated only when the
\* level is enabled, then Context::create().
ParseFileBegin ==
  /\ pc = "parse_file"
  /\ IF logInfo /\ path_to_str(path[1]) = None
       THEN Return(Settle(Panicked(UnwrapNonePanic), guards), <<"log_path">>)
       ELSE /\ pc' = "file_to_module"
            /\ done' = done \o <<"log_path", "Context::create">>
            /\ UNCHANGED <<guards, result>>
  /\ UNCHANGED <<collection_vars, entry, path, entry_point, logInfo, module,
                 functions, entry_fn, graph, config, session>>

\* A mutant: a failed load is attempted again.
FileToModule_retry ==
  /\ pc = "file_to_module"
  /\ \E decoded \in Decodings :
     LET r == file_to_module(path[1], decoded)
         ops == <<"file_to_module">> \o loader_ops(path[1])
     IN IF r.kind = "Ok" /\ entry /= "file_to_module"
          THEN /\ module' = Some(r.val)
               /\ pc' = "build_graph_from_module"
               /\ guards' = guards + 1
               /\ done' = done \o ops
               /\ UNCHANGED result
          ELSE /\ done' = done \o ops
               /\ UNCHANGED <<pc, guards, result, module>>
  /\ UNCHANGED <<collection_vars, entry, path, entry_point, logInfo,
                 functions, entry_fn, graph, config, session>>

\* file_to_module(path, &context), and in parse_file the ? on its result.
FileToModule ==
  /\ pc = "file_to_module"
  /\ \E decoded \in Decodings :
     LET r == file_to_module(path[1], decoded)
         ops == <<"file_to_module">> \o loader_ops(path[1])
     IN IF r.kind = "Ok" /\ entry /= "file_to_module"
          THEN /\ module' = Some(r.val)
               /\ pc' = "build_graph_from_module"
               /\ guards' = guards + 1
               /\ done' = done \o ops
               /\ UNCHANGED result
          ELSE /\ Return(r, ops)
               /\ UNCHANGED module
  /\ UNCHANGED <<collection_vars, entry, path, entry_point, logInfo,
                 functions, entry_fn, graph, config, session>>

\* A mutant: the verifier's verdict is ignored (map_err without the ?).
VerifyAndOptimize_unchecked ==
  /\ pc = "build_graph_from_module"
  /\ pc' = "choose_entry_point"
  /\ guards' = guards + 1
  /\ done' = done \o <<"verify", "run_passes", "initialize_native",
                       "load_library_permanently">>
  /\ UNCHANGED <<collection_vars, entry, path, entry_point, logInfo, module,
                 functions, entry_fn, graph, config, session, result>>

\* build_graph_from_module up to entry-point resolution, inside its
\* catch_panics: module.verify() with map_err and ?, the pass manager
\* (global DCE, strip dead prototypes) run on the module,
\* Target::initialize_native with ?, load_library_permanently.
VerifyAndOptimize ==
  /\ pc = "build_graph_from_module"
  /\ IF module[1].verify /= None
       THEN Return(Err(<<"Failed to verify module: ", module[1].verify[1]>>),
                   <<"verify">>)
       ELSE \E native \in {Ok(<<>>), Err(<<"native target unavailable">>)} :
              IF native.kind = "Ok"
                THEN /\ pc' = "choose_entry_point"
                     /\ guards' = guards + 1
                     /\ done' = done \o <<"verify", "run_passes",
                                          "initialize_native",
                                          "load_library_permanently">>
                     /\ UNCHANGED result
                ELSE Return(native,
                            <<"verify", "run_passes", "initialize_native">>)
  /\ UNCHANGED <<collection_vars, entry, path, entry_point, logInfo, module,
                 functions, entry_fn, graph, config, session>>

\* choose_entry_point(module_functions(module), entry_point)? and the log of
\* the chosen name, entry_point.get_name().to_str().unwrap(), which is
\* evaluated only when Level::Info is enabled.
ResolveEntryPoint ==
  /\ pc = "choose_entry_point"
  /\ functions' = module[1].funcs
  /\ LET r == choose_entry_point(module[1].funcs, entry_point)
     IN IF r.kind /= "Ok"
          THEN /\ Return(Settle(r, guards), <<"choose_entry_point">>)
               /\ UNCHANGED entry_fn
          ELSE /\ entry_fn' = Some(r.val)
               /\ IF logInfo /\ to_str(module[1].funcs[r.val].name) = None
                    THEN Return(Settle(Panicked(UnwrapPanic), guards),
                                <<"choose_entry_point", "log_entry_point">>)
                    ELSE /\ pc' = "evaluate"
                         /\ done' = done \o <<"choose_entry_point",
                                              "log_entry_point">>
                         /\ UNCHANGED <<guards, result>>
  /\ UNCHANGED <<collection_vars, entry, path, entry_point, logInfo, module,
                 graph, config, session>>

\* The caller invokes choose_entry_point(functions, name) itself.
CallChooseEntryPoint ==
  /\ pc = "idle"
  /\ entry' = "choose_entry_point"
  /\ path' = None
  /\ logInfo' = FALSE
  /\ module' = None
  /\ graph' = None
  /\ config' = None
  /\ session' = None
  /\ \E fs \in SeqUpTo(FunctionValues, MaxFuncs), n \in RequestedNames :
       LET r == choose_entry_point(fs, n)
       IN /\ functions' = fs
          /\ entry_point' = n
          /\ entry_fn' = IF r.kind = "Ok" THEN Some(r.val) ELSE None
          /\ pc' = "returned"
          /\ result' = r
          /\ guards' = 0
          /\ done' = <<"choose_entry_point">>
  /\ prior' = None
  /\ UNCHANGED <<QPU_runtimes, constructed, added, valid, last, probes,
                 earlier, scans>>

\* QIREvaluator::new().evaluate(&entry_point, &module): the graph the
\* evaluator builds, or its error. In run_file the graph then goes to
\* run_graph; the locals of parse_file and build_graph_from_module (the
\* context, the module, its functions, the chosen function) end with them.
Evaluate ==
  /\ pc = "evaluate"
  /\ \E built \in {Err(<<"evaluation failed">>)} \cup {Ok(g) : g \in Graphs} :
     IF built.kind = "Ok" /\ entry = "run_file"
       THEN /\ graph' = Some(built.val)
            /\ module' = None
            /\ functions' = <<>>
            /\ entry_fn' = None
            /\ pc' = "run_graph"
            /\ guards' = 1
            /\ done' = done \o <<"evaluate">>
            /\ UNCHANGED result
       ELSE /\ Return(built, <<"evaluate">>)
            /\ UNCHANGED <<graph, module, functions, entry_fn>>
  /\ UNCHANGED <<collection_vars, entry, path, entry_point, logInfo,
                 config, session>>

\* A mutant: one session serves every call (a static QuantumRuntime): its
\* step count goes on from where the previous run_graph call left it.
NewSession_reuse ==
  /\ pc = "run_graph"
  /\ session' = Some([step_count |-> IF prior = None THEN 0
                                     ELSE prior[1].step_count,
                      step_limit |-> config[1].step_limit])
  /\ pc' = "execute"
  /\ guards' = guards + 1
  /\ done' = done \o <<"QuantumRuntime::new", "execute">>
  /\ UNCHANGED <<collection_vars, entry, path, entry_point, logInfo, module,
                 functions, entry_fn, graph, config, result>>

\* A mutant: the session is built on a default configuration.
NewSession_default ==
  /\ pc = "run_graph"
  /\ session' = Some([step_count |-> 0, step_limit |-> None])
  /\ pc' = "execute"
  /\ guards' = guards + 1
  /\ done' = done \o <<"QuantumRuntime::new", "execute">>
  /\ UNCHANGED <<collection_vars, entry, path, entry_point, logInfo, module,
                 functions, entry_fn, graph, config, result>>

\* run_graph: QuantumRuntime::new(runtimes, config), a session of this call
\* alone, then catch_panics around runtime.execute(graph, arguments).
NewSession ==
  /\ pc = "run_graph"
  /\ session' = Some([step_count |-> 0, step_limit |-> config[1].step_limit])
  /\ pc' = "execute"
  /\ guards' = guards + 1
  /\ done' = done \o <<"QuantumRuntime::new", "execute">>
  /\ UNCHANGED <<collection_vars, entry, path, entry_point, logInfo, module,
                 functions, entry_fn, graph, config, result>>

\* One step of QuantumRuntime::execute: the session counts the step and
\* fails once the count exceeds the configured limit; the graph's last step
\* needs a capable runtime from the collection and yields the value.
ExecuteStep ==
  /\ pc = "execute"
  /\ LET n == session[1].step_count + 1
         limit == session[1].step_limit
         qpu == find_capable_QPU(QPU_runtimes, valid, graph[1].features)
     IN IF limit /= None /\ n > limit[1]
          THEN /\ Return(Err(<<"Execution step count limit exceeded.">>), <<>>)
               /\ UNCHANGED session
          ELSE IF n < graph[1].steps
            THEN /\ session' = Some([session[1] EXCEPT !.step_count = n])
                 /\ UNCHANGED <<pc, guards, done, result>>
          ELSE IF qpu = None
            THEN /\ Return(Err(<<"No capable runtime found.">>), <<>>)
                 /\ session' = Some([session[1] EXCEPT !.step_count = n])
          ELSE /\ Return(Ok(Some("value")), <<>>)
               /\ session' = Some([session[1] EXCEPT !.step_count = n])
  /\ UNCHANGED <<collection_vars, entry, path, entry_point, logInfo, module,
                 functions, entry_fn, graph, config>>

\* The caller has taken the result and dropped the arguments; the next call
\* may start.
Finish ==
  /\ pc = "returned"
  /\ pc' = "idle"
  /\ entry' = "none"
  /\ path' = None
  /\ entry_point' = None
  /\ logInfo' = FALSE
  /\ module' = None
  /\ functions' = <<>>
  /\ entry_fn' = None
  /\ graph' = None
  /\ config' = None
  /\ session' = None
  /\ guards' = 0
  /\ done' = <<>>
  /\ result' = NoResult
  /\ prior' = IF entry = "run_graph"
                THEN Some([graph |-> graph[1], config |-> config[1],
                           runtimes |-> QPU_runtimes,
                           step_count |-> session[1].step_count,
                           result |-> result])
                ELSE None
  /\ UNCHANGED <<QPU_runtimes, constructed, added, valid, last, probes,
                 earlier, scans>>

\* The steps of a call in progress.
Steps ==
  \/ RunFileEnter
  \/ ParseFileBegin
  \/ FileToModule
  \/ VerifyAndOptimize
  \/ ResolveEntryPoint
  \/ Evaluate
  \/ NewSession
  \/ ExecuteStep

Next ==
  \/ RunFile
  \/ ParseFile
  \/ CallFileToModule
  \/ BuildGraphFromModule
  \/ RunGraph
  \/ CallChooseEntryPoint
  \/ Steps
  \/ Finish

Spec == Init /\ [][Next]_vars

\* ================================================================ claims
\* The two attribute names that mark an entry point.
Markers == {"entry_point", "EntryPoint"}
\* The positions of the marked functions among those handed to
\* choose_entry_point.
MarkedAt == {i \in 1..Len(functions) : functions[i].attrs \cap Markers /= {}}
\* Entry-point resolution is the latest thing this call performed.
Resolved ==
  /\ done /= <<>>
  /\ done[Len(done)] \in {"choose_entry_point", "log_entry_point"}
\* The positions of the collection's entries that are valid now and declare
\* the features last asked for.
Qualifying ==
  {i \in 1..Len(QPU_runtimes) :
     valid[QPU_runtimes[i]] /\ last.features \subseteq Declared(QPU_runtimes[i])}

\* C1: find_capable_QPU returns the entry of smallest insertion index that is
\* valid and declares the requested features, and None when no entry is both
\* (an invalid entry that declares them does not count).
C1_FirstFit ==
  last.op = "find_capable_QPU" =>
    IF Qualifying = {} THEN last.found = None
    ELSE \E i \in Qualifying :
           /\ \A j \in Qualifying : i <= j
           /\ last.found = Some(QPU_runtimes[i])

\* C1 witness: the scan passed over an invalid entry that declares the
\* features, returned the next qualifying entry, and a different qualifying
\* entry stands later in the collection.
C1_Witness ==
  /\ last.op = "find_capable_QPU"
  /\ \E i, j, k \in 1..Len(QPU_runtimes) :
       /\ i < j /\ j < k
       /\ ~valid[QPU_runtimes[i]]
       /\ last.features \subseteq Declared(QPU_runtimes[i])
       /\ j \in Qualifying /\ k \in Qualifying
       /\ QPU_runtimes[k] /= QPU_runtimes[j]
       /\ last.found = Some(QPU_runtimes[j])

\* C2 (as claimed): with a requested name, choose_entry_point returns the
\* first function of that name whatever the markers, and fails with the
\* "no such function" error exactly when no function has the name.
C2_NamedLookup ==
  (Resolved /\ entry_point /= None) =>
    LET named == {i \in 1..Len(functions) : functions[i].name = entry_point[1]}
    IN IF named = {}
         THEN entry_fn = None /\ result = Err(ErrNoMethod)
         ELSE /\ \E i \in named : (\A j \in named : i <= j) /\ entry_fn = Some(i)
              /\ result /= Err(ErrNoMethod)

\* C3: with no requested name and exactly one marked function,
\* choose_entry_point returns that function, wherever it stands.
C3_UniqueMarked ==
  (Resolved /\ entry_point = None /\ Cardinality(MarkedAt) = 1) =>
    /\ \E i \in MarkedAt : entry_fn = Some(i)
    /\ entry = "choose_entry_point" => result.kind = "Ok"

\* C3 witness: the one marked function is chosen from behind an unmarked one.
C3_Witness ==
  /\ Resolved /\ entry_point = None
  /\ Len(functions) = 2 /\ MarkedAt = {2}
  /\ entry_fn = Some(2)

\* C4: with no requested name and two or more marked functions,
\* choose_entry_point fails as ambiguous and returns no function; the call
\* ends there, with no graph built and nothing executed.
C4_Ambiguous ==
  (Resolved /\ entry_point = None /\ Cardinality(MarkedAt) >= 2) =>
    /\ result = Err(ErrAmbiguous)
    /\ entry_fn = None
    /\ pc = "returned"
    /\ graph = None /\ session = None
    /\ \A i \in 1..Len(done) :
         done[i] \notin {"evaluate", "QuantumRuntime::new", "execute"}

\* C4 witness: a run_file call on a module with two marked functions ended
\* in the ambiguity error.
C4_Witness ==
  /\ entry = "run_file" /\ Resolved /\ entry_point = None
  /\ Cardinality(MarkedAt) = 2
  /\ result = Err(ErrAmbiguous)

\* C5: with no requested name and no marked function (an empty function
\* list included), choose_entry_point fails with the "no entry points"
\* error, which is neither the ambiguity error nor the name-lookup error.
C5_NoEntryPoints ==
  (Resolved /\ entry_point = None /\ MarkedAt = {}) =>
    /\ result = Err(ErrNoEntryPoints)
    /\ result /= Err(ErrAmbiguous)
    /\ result /= Err(ErrNoMethod)
    /\ entry_fn = None

\* C5 witness: resolution failed on a module that has functions, none marked.
C5_Witness ==
  /\ Resolved /\ entry_point = None
  /\ Len(functions) = 2 /\ MarkedAt = {}
  /\ result = Err(ErrNoEntryPoints)

\* The call has performed operation op.
Performed(op) == \E i \in 1..Len(done) : done[i] = op
\* The operations that read or decode the file.
DecoderOps ==
  {"MemoryBuffer::create_from_file", "create_module_from_ir",
   "parse_bitcode_from_path"}
\* The operations that follow the load.
LaterOps ==
  {"verify", "run_passes", "initialize_native", "load_library_permanently",
   "choose_entry_point", "log_entry_point", "evaluate",
   "QuantumRuntime::new", "execute"}

\* C6 (as claimed): file_to_module decodes extension ll as textual IR and bc
\* as bitcode; any other extension fails at once with the unsupported-
\* extension error naming that extension, the file neither read nor parsed
\* and nothing later performed.
C6_UnsupportedExtension ==
  Performed("file_to_module") =>
    LET ext == path[1].ext
    IN IF ext = Some("ll")
         THEN Performed("create_module_from_ir")
              /\ ~Performed("parse_bitcode_from_path")
       ELSE IF ext = Some("bc")
         THEN Performed("parse_bitcode_from_path")
              /\ ~Performed("create_module_from_ir")
       ELSE /\ pc = "returned"
            /\ result.kind = "Err"
            /\ result.val[1] = "Unsupported file extension "
            /\ (ext /= None => result.val[2] = ext)
            /\ \A i \in 1..Len(done) : done[i] \notin DecoderOps \cup LaterOps

\* C7: when verification rejects the module, build_graph_from_module fails
\* at once with the verifier's message in the error: no pass is run, the
\* native target is not initialised, no entry point is resolved and the
\* evaluator is not invoked, whether or not the requested entry point exists.
C7_VerifyFirst ==
  (Performed("verify") /\ module /= None /\ module[1].verify /= None) =>
    /\ pc = "returned"
    /\ result = Err(<<"Failed to verify module: ", module[1].verify[1]>>)
    /\ done[Len(done)] = "verify"
    /\ functions = <<>> /\ entry_fn = None /\ graph = None
    /\ \A i \in 1..Len(done) : done[i] \notin LaterOps \ {"verify"}

\* C7 witness: a module that is invalid and also lacks the requested entry
\* point was rejected with the verification error.
C7_Witness ==
  /\ Performed("verify") /\ module /= None /\ module[1].verify /= None
  /\ entry_point = Some("main")
  /\ \A i \in 1..Len(module[1].funcs) : module[1].funcs[i].name /= "main"
  /\ result = Err(<<"Failed to verify module: ", module[1].verify[1]>>)

\* C8 (as claimed): a panic raised in any stage of run_file, parse_file,
\* build_graph_from_module or run_graph comes back as an Err; none leaves
\* the entry point as a panic.
C8_PanicsContained ==
  entry \in {"run_file", "parse_file", "build_graph_from_module", "run_graph"}
    => result.kind /= "Panic"

\* The stage of the state machine a run is in, by number: Created 0,
\* Parsing 1, Verifying 2, Resolving-Entry 3, Building-Graph 4, Executing 5,
\* and 6 for the two final stages, Completed and Failed.
StageAt(p) ==
  CASE p = "run_file" -> 0
    [] p \in {"parse_file", "file_to_module"} -> 1
    [] p = "build_graph_from_module" -> 2
    [] p = "choose_entry_point" -> 3
    [] p = "evaluate" -> 4
    [] p \in {"run_graph", "execute"} -> 5
    [] OTHER -> 6
\* The stage an operation belongs to.
StageOfOp(op) ==
  CASE op \in {"log_path", "Context::create", "file_to_module"} \cup DecoderOps -> 1
    [] op \in {"verify", "run_passes", "initialize_native",
               "load_library_permanently"} -> 2
    [] op \in {"choose_entry_point", "log_entry_point"} -> 3
    [] op = "evaluate" -> 4
    [] OTHER -> 5
Completed == pc = "returned" /\ result.kind = "Ok"
Failed == pc = "returned" /\ result.kind = "Err"

\* The state part of C9, for a run_file run: it is in a final stage exactly
\* when it has its result, which is a value or an Err; no operation was
\* performed twice; the operations were performed in stage order, none of a
\* stage the run has not reached, every stage before the current one was
\* performed; Completed comes only from Executing; and a run that is not
\* final can take its next step.
C9_State ==
  entry = "run_file" =>
    /\ pc /= "idle"
    /\ (pc = "returned") = (result.kind /= "Pending")
    /\ pc = "returned" => (Completed \/ Failed) /\ ~(Completed /\ Failed)
    /\ \A i, j \in 1..Len(done) :
         /\ done[i] = done[j] => i = j
         /\ i < j => StageOfOp(done[i]) <= StageOfOp(done[j])
    /\ pc /= "returned" =>
         /\ \A i \in 1..Len(done) : StageOfOp(done[i]) <= StageAt(pc)
         /\ \A k \in 1..(StageAt(pc) - 1) :
              \E i \in 1..Len(done) : StageOfOp(done[i]) = k
         /\ ENABLED Steps
    /\ Completed => Performed("execute")

\* The step part of C9: a run_file run stays in its stage while that stage
\* makes progress, moves to the next stage, or moves to a final stage;
\* Completed is entered from Executing only; a final stage is left only by
\* the caller dropping the run, never by resuming it.
C9_Step ==
  entry = "run_file" =>
    IF pc = "returned"
      THEN \/ UNCHANGED run_vars
           \/ pc' = "idle" /\ entry' = "none"
      ELSE /\ entry' = "run_file"
           /\ \/ UNCHANGED run_vars
              \/ /\ StageAt(pc') = StageAt(pc)
                 /\ \/ Len(done') > Len(done)
                    \/ /\ session /= None /\ session' /= None
                       /\ session'[1].step_count > session[1].step_count
              \/ StageAt(pc') = StageAt(pc) + 1 /\ pc' /= "returned"
              \/ /\ pc' = "returned"
                 /\ result'.kind = "Ok" => StageAt(pc) = 5

\* C9: every run_file run goes through Created, Parsing, Verifying,
\* Resolving-Entry, Building-Graph, Executing in that order, each at most
\* once and each only after the one before succeeded; the first failure
\* takes it straight to Failed; it ends in exactly one of Completed and
\* Failed, and neither is ever left by resuming the run.
C9_StageOrder == [](C9_State) /\ [][C9_Step]_vars

\* C9 witness: one run_file run that went through every stage and completed.
C9_Witness ==
  /\ entry = "run_file" /\ Completed
  /\ \A k \in 1..5 : \E i \in 1..Len(done) : StageOfOp(done[i]) = k

\* The outcome of executing the graph under the configured limit.
LimitBelow == config[1].step_limit /= None
                /\ config[1].step_limit[1] < graph[1].steps
LimitAbove == config[1].step_limit = None
                \/ config[1].step_limit[1] > graph[1].steps
\* Some runtime of the collection can run the graph, so that the program
\* completes when nothing limits it.
Runnable ==
  \E i \in 1..Len(QPU_runtimes) :
    valid[QPU_runtimes[i]] /\ graph[1].features \subseteq Declared(QPU_runtimes[i])

\* C10: a program that needs N steps fails, with an Err and no value, under
\* a step-count limit below N, and completes under a limit above N or under
\* no limit; a given program, limit and collection always give the same
\* outcome.
C10_StepLimit ==
  (pc = "returned" /\ Performed("execute")) =>
    /\ LimitBelow => result = Err(<<"Execution step count limit exceeded.">>)
    /\ (LimitAbove /\ Runnable) => result = Ok(Some("value"))
    /\ (~LimitBelow /\ Runnable) => result = Ok(Some("value"))
    /\ (~LimitBelow /\ ~Runnable) => result = Err(<<"No capable runtime found.">>)
    /\ result.kind \in {"Ok", "Err"}

\* C10 witness: a run_file run of a two-step program under a limit of one
\* step, on a collection that could run it, ended in the limit error.
C10_Witness ==
  /\ entry = "run_file" /\ pc = "returned" /\ Performed("execute")
  /\ graph[1].steps = 2 /\ config[1].step_limit = Some(1) /\ Runnable
  /\ result.kind = "Err"

\* The positions of the marked functions of the module being analysed.
ModuleMarkedAt ==
  {i \in 1..Len(module[1].funcs) : module[1].funcs[i].attrs \cap Markers /= {}}
\* A run_file run has ended whose file has a supported extension, decoded and
\* verified (the native target was set up after it), whose module has one
\* marked function, with no requested name, no configured limit and a
\* collection of one valid runtime that declares every feature a graph needs,
\* and whose module the evaluator accepted.
RoundTripRun ==
  /\ entry = "run_file" /\ pc = "returned"
  /\ extension_of(path[1]) \in {Some("ll"), Some("bc")}
  /\ Performed("load_library_permanently")
  /\ entry_point = None
  /\ module /= None => Cardinality(ModuleMarkedAt) = 1
  /\ config[1].step_limit = None
  /\ QPU_runtimes = <<"qpu_a">> /\ valid["qpu_a"]
  /\ result /= Err(<<"evaluation failed">>)

\* C11 (as claimed): a run_file run on a well-formed file of a supported
\* extension whose module has a unique marked entry point, with no requested
\* name, no limits and one always-valid feature-complete runtime, ends in
\* Completed with a non-error result, never in Failed.
C11_RoundTrip == RoundTripRun => Completed /\ ~Failed

\* The state part of C12: the collection holds the entries its constructor
\* was given, in their order, followed by the runtimes passed to add, in the
\* order of the calls (duplicates kept).
C12_State == QPU_runtimes = constructed \o added

\* The step part of C12: a step either constructs a collection (new, from,
\* default), or is an add, which makes the collection one longer, keeps every
\* earlier entry at its index and puts the added runtime last, or leaves the
\* sequence of entries as it was.
C12_Step ==
  \/ last'.op \in {"new", "from", "default"}
  \/ /\ last'.op = "add"
     /\ Len(QPU_runtimes') = Len(QPU_runtimes) + 1
     /\ \A i \in 1..Len(QPU_runtimes) : QPU_runtimes'[i] = QPU_runtimes[i]
     /\ Len(added') = Len(added) + 1
     /\ QPU_runtimes'[Len(QPU_runtimes')] = added'[Len(added')]
     /\ constructed' = constructed
  \/ /\ last'.op \in {"find_capable_QPU", "set_valid"}
     /\ QPU_runtimes' = QPU_runtimes

\* C12: the runtime collection is append-only and order-preserving: after
\* new, from or default and any sequence of add and find_capable_QPU calls
\* its contents are the constructor's entries in their order followed by the
\* added runtimes in call order; every add makes it one longer and puts the
\* runtime last, duplicates are kept, nothing is removed or reordered.
C12_AppendOnly == [](C12_State) /\ [][C12_Step]_vars

\* C12 witness: a collection built from one runtime, to which that runtime
\* and then another were added, was scanned and still holds all three in
\* that order.
C12_Witness ==
  /\ last.op = "find_capable_QPU"
  /\ Len(constructed) = 1 /\ Len(added) = 2
  /\ added[1] = constructed[1] /\ added[2] /= added[1]
  /\ QPU_runtimes = <<constructed[1], added[1], added[2]>>

\* C13: validity is read afresh by every find_capable_QPU call and is not
\* cached: the call returns only a runtime that is valid at the time of the
\* call, so not the one an earlier call returned if that has become invalid
\* since, and whenever some entry is valid now and declares the features
\* (also one that was invalid during an earlier call) the call returns such
\* an entry, and otherwise nothing.
C13_FreshValidity ==
  last.op = "find_capable_QPU" =>
    /\ \A r \in Runtimes : last.found = Some(r) => valid[r]
    /\ (earlier /= None /\ ~valid[earlier[1]]) => last.found /= earlier
    /\ Qualifying /= {} =>
         \E i \in Qualifying : last.found = Some(QPU_runtimes[i])
    /\ Qualifying = {} => last.found = None

\* C13 witness: the runtime the earlier call returned has become invalid, is
\* still in the collection and declares the features, and this call returned
\* another runtime, one that stands after it.
C13_Witness ==
  /\ last.op = "find_capable_QPU"
  /\ earlier /= None /\ ~valid[earlier[1]]
  /\ last.found /= None /\ last.found /= earlier
  /\ \E i, j \in 1..Len(QPU_runtimes) :
       /\ i < j
       /\ QPU_runtimes[i] = earlier[1]
       /\ last.features \subseteq Declared(earlier[1])
       /\ QPU_runtimes[j] = last.found[1]

\* The positions of the entries that are valid now and declare the features
\* execution e asked for.
QualifyingFor(e) ==
  {i \in 1..Len(QPU_runtimes) :
     valid[QPU_runtimes[i]] /\ scans[e].features \subseteq Declared(QPU_runtimes[i])}

C15_ScanFrame ==
  [][last'.op = "find_capable_QPU" =>
       /\ Len(QPU_runtimes') = Len(QPU_runtimes)
       /\ \A i \in 1..Len(QPU_runtimes) : QPU_runtimes'[i] = QPU_runtimes[i]
       /\ last'.found /= None =>
            \E i \in 1..Len(QPU_runtimes') : QPU_runtimes'[i] = last'.found[1]
    ]_vars

\* C15 witness: a call that passed over an invalid entry and returned a later
\* one, on a collection that still holds both.
C15_Witness ==
  /\ last.op = "find_capable_QPU"
  /\ Len(QPU_runtimes) >= 2
  /\ ~valid[QPU_runtimes[1]]
  /\ last.found = Some(QPU_runtimes[2])

\* The run_graph call made just before this one had the same graph,
\* configuration and collection.
SameAsPrior ==
  /\ prior /= None
  /\ prior[1].graph = graph[1]
  /\ prior[1].config = config[1]
  /\ prior[1].runtimes = QPU_runtimes

\* C16: every run_graph call builds a session of its own on the given
\* configuration, and nothing of a session carries over: a call counts its
\* steps from zero up to at most the graph's steps, and a call that repeats
\* the graph, configuration and collection of the call before it, whether
\* that one failed or not, takes the same number of steps and returns the
\* same result.
C16_FreshSession ==
  (entry = "run_graph" /\ session /= None) =>
    /\ session[1].step_limit = config[1].step_limit
    /\ session[1].step_count <= graph[1].steps
    /\ pc = "execute" => session[1].step_count < graph[1].steps
    /\ (pc = "returned" /\ SameAsPrior) =>
         /\ session[1].step_count = prior[1].step_count
         /\ result = prior[1].result

\* C16 witness: a run_graph call that repeated a call which had failed on
\* the step limit, and failed in the same way after as many steps.
C16_Witness ==
  /\ entry = "run_graph" /\ pc = "returned" /\ SameAsPrior
  /\ prior[1].result.kind = "Err"
  /\ config[1].step_limit = Some(1) /\ graph[1].steps = 2
  /\ session[1].step_count = 1
  /\ result = prior[1].result

\* C17: a function is a candidate entry point exactly when it carries an
\* attribute named "entry_point" or "EntryPoint" (another spelling, such as
\* "entrypoint", does not count), and it is one candidate however many of
\* the two it carries: with no requested name a function is chosen exactly
\* when one function is marked, the chosen one is marked, and a lone
\* function carrying both markers is chosen, not refused as ambiguous.
C17_MarkerSpelling ==
  (Resolved /\ entry_point = None) =>
    /\ entry_fn /= None <=> Cardinality(MarkedAt) = 1
    /\ entry_fn /= None => entry_fn[1] \in MarkedAt
    /\ \A i \in 1..Len(functions) :
         (functions[i].attrs = Markers /\ MarkedAt = {i}) =>
           /\ entry_fn = Some(i)
           /\ result /= Err(ErrAmbiguous)
    /\ \A i \in 1..Len(functions) :
         functions[i].attrs \cap Markers = {} => entry_fn /= Some(i)

\* C17 witness: of two functions, the first carrying only the spelling
\* "entrypoint" and the second carrying both markers, the second was chosen.
C17_Witness ==
  /\ Resolved /\ entry_point = None
  /\ Len(functions) = 2
  /\ functions[1].attrs = {"entrypoint"}
  /\ functions[2].attrs = Markers
  /\ entry_fn = Some(2)
  /\ result.kind = "Ok"

\* The positions in the record of checks where is_valid was asked.
ValidityProbes == {k \in 1..Len(probes) : probes[k][1] = "is_valid"}

\* C18: a find_capable_QPU scan examines the entries in insertion order,
\* none skipped; on each examined entry it asks is_valid first and asks
\* has_features only when the entry is valid, directly after; and it stops
\* at the first entry that passes both, which it returns, so that no entry
\* behind the returned one is examined, while a scan that returns nothing has
\* examined every entry.
C18_ScanOrder ==
  last.op = "find_capable_QPU" =>
    /\ \A k \in 1..Len(probes) : probes[k][2] \in 1..Len(QPU_runtimes)
    /\ \A k \in ValidityProbes :
         probes[k][2] = Cardinality({j \in ValidityProbes : j <= k})
    /\ \A k \in 1..Len(probes) :
         probes[k][1] = "has_features" =>
           /\ k > 1
           /\ probes[k - 1] = <<"is_valid", probes[k][2]>>
           /\ valid[QPU_runtimes[probes[k][2]]]
    /\ \A k \in ValidityProbes :
         valid[QPU_runtimes[probes[k][2]]] =>
           k < Len(probes) /\ probes[k + 1] = <<"has_features", probes[k][2]>>
    /\ \A k \in 1..Len(probes) :
         ( /\ probes[k][1] = "has_features"
           /\ last.features \subseteq Declared(QPU_runtimes[probes[k][2]]) )
         => k = Len(probes) /\ last.found = Some(QPU_runtimes[probes[k][2]])
    /\ last.found /= None =>
         /\ probes /= <<>>
         /\ probes[Len(probes)][1] = "has_features"
         /\ last.found = Some(QPU_runtimes[probes[Len(probes)][2]])
         /\ \A k \in 1..Len(probes) : probes[k][2] <= probes[Len(probes)][2]
    /\ last.found = None =>
         Cardinality(ValidityProbes) = Len(QPU_runtimes)

\* C18 witness: a scan of three entries that asked only is_valid of the
\* first, which is invalid though it declares the features, asked both of
\* the second and returned it, and never examined the third.
C18_Witness ==
  /\ last.op = "find_capable_QPU"
  /\ Len(QPU_runtimes) = 3
  /\ ~valid[QPU_runtimes[1]]
  /\ last.features \subseteq Declared(QPU_runtimes[1])
  /\ probes = <<<<"is_valid", 1>>, <<"is_valid", 2>>, <<"has_features", 2>>>>
  /\ last.found = Some(QPU_runtimes[2])

\* The extensions that are none of the two supported ones only by letter
\* case, and the absent extension.
NearExtensions == {None, Some("LL"), Some("Bc")}

\* C19: extension matching is exact: for a path with no extension or with
\* an extension that is ll or bc up to letter case, file_to_module returns
\* the unsupported-extension error and the file is never opened; a call on
\* such a path never gets past Parsing and a run_file run on it ends in
\* Failed.
C19_ExactExtension ==
  (path /= None /\ path[1].ext \in NearExtensions) =>
    /\ \A i \in 1..Len(done) : done[i] \notin DecoderOps \cup LaterOps
    /\ module = None /\ graph = None /\ session = None
    /\ pc \in {"run_file", "parse_file", "file_to_module", "returned"}
    /\ Performed("file_to_module") =>
         /\ pc = "returned"
         /\ result = Err(<<"Unsupported file extension ", path[1].ext>>)
    /\ pc = "returned" => Failed /\ Performed("file_to_module")

\* C19 witness: a run_file run on a path with extension LL ended in Failed
\* with the unsupported-extension error right after file_to_module.
C19_Witness ==
  /\ entry = "run_file" /\ Failed
  /\ path[1].ext = Some("LL")
  /\ done = <<"log_path", "Context::create", "file_to_module">>
  /\ result = Err(<<"Unsupported file extension ", Some("LL")>>)

====
